---------------------------- MODULE Spec2Model ----------------------------
(***************************************************************************)
(* A model of embdata.trajectory: the Trajectory container, its            *)
(* statistics, its resampling and its normalisation transforms             *)
(* (src/embdata/trajectory.py).                                            *)
(*                                                                         *)
(* Numbers.  A matrix entry, a rate and a time index is an exact rational  *)
(* <<n, d>> in lowest terms (d > 0), or NaN == <<0, 0>>, the value numpy   *)
(* yields for 0/0.  The integer-valued decisions the code takes on floats  *)
(* (int(f / t), ceil(d * t)) are evaluated in IEEE-754 binary64, as the    *)
(* interpreter evaluates them (see the Float section).                     *)
(*                                                                         *)
(* Optional values (None) are sequences: <<>> is None, <<v>> is v.         *)
(***************************************************************************)
EXTENDS Integers, Sequences, FiniteSets, TLC

(***************************************************************************)
(* Exact rationals                                                         *)
(***************************************************************************)
Abs(x) == IF x < 0 THEN -x ELSE x

RECURSIVE GCD(_, _)
GCD(a, b) == IF b = 0 THEN a ELSE GCD(b, a % b)

NaN == <<0, 0>>

IsNaN(x) == x[2] = 0

\* n/d in lowest terms with a positive denominator; x/0 is NaN (the code
\* divides by zero only as 0/0: a column's own min or mean over its own
\* zero range or deviation).
Rat(n, d) ==
    IF d = 0 THEN NaN
    ELSE LET g == GCD(Abs(n), Abs(d))
             s == IF d < 0 THEN -1 ELSE 1
         IN  <<(s * n) \div g, (s * d) \div g>>

R(n) == <<n, 1>>

\* The sum over the least common denominator, the product after cancelling
\* across: the intermediate integers stay as small as the result allows.
RAdd(x, y) ==
    IF IsNaN(x) \/ IsNaN(y) THEN NaN
    ELSE LET g == GCD(x[2], y[2])
         IN  Rat(x[1] * (y[2] \div g) + y[1] * (x[2] \div g), (x[2] \div g) * y[2])

RNeg(x) == <<-x[1], x[2]>>

RSub(x, y) == IF IsNaN(y) THEN NaN ELSE RAdd(x, RNeg(y))

RMul(x, y) ==
    IF IsNaN(x) \/ IsNaN(y) THEN NaN
    ELSE LET g1 == GCD(Abs(x[1]), y[2])
             g2 == GCD(Abs(y[1]), x[2])
         IN  IF x[1] = 0 \/ y[1] = 0 THEN <<0, 1>>
             ELSE <<(x[1] \div g1) * (y[1] \div g2), (x[2] \div g2) * (y[2] \div g1)>>

RInv(x) == IF IsNaN(x) \/ x[1] = 0 THEN NaN
           ELSE IF x[1] < 0 THEN <<-x[2], -x[1]>> ELSE <<x[2], x[1]>>

RDiv(x, y) == RMul(x, RInv(y))

\* x < y; false when either is NaN, as every IEEE comparison with NaN is.
RLess(x, y) == ~IsNaN(x) /\ ~IsNaN(y) /\ x[1] * y[2] < y[1] * x[2]

RFloor(x) == x[1] \div x[2]

RCeil(x) == -((-x[1]) \div x[2])

\* The rational square root of a rational square, NaN for NaN; <<>> when
\* the root is irrational (the model has no value for it).
RECURSIVE SqrtFloor(_, _, _)
SqrtFloor(n, lo, hi) ==
    IF lo = hi THEN lo
    ELSE LET mid == (lo + hi + 1) \div 2
         IN  IF mid <= n \div mid THEN SqrtFloor(n, mid, hi) ELSE SqrtFloor(n, lo, mid - 1)

\* The natural numbers whose square is n: one or none
ISqrt(n) == {k \in {SqrtFloor(n, 0, n)} : k * k = n}

RSqrt(x) ==
    IF IsNaN(x) THEN <<NaN>>
    ELSE IF ISqrt(x[1]) = {} \/ ISqrt(x[2]) = {} THEN <<>>
    ELSE <<Rat(CHOOSE k \in ISqrt(x[1]) : TRUE, CHOOSE k \in ISqrt(x[2]) : TRUE)>>

(***************************************************************************)
(* Float: IEEE-754 binary64 arithmetic on positive values, for the places  *)
(* where the code turns a float into an integer.  A natural number of any  *)
(* size is a sequence of limbs in base 2^LimbBits, least significant       *)
(* first, without leading zero limbs (<<>> is 0); a float is [m, e] with   *)
(* value m * 2^e, m of exactly MantissaBits bits (or <<>> for 0.0).        *)
(* Exponent range and subnormals are not modelled: the rates and durations *)
(* here are far from both.                                                 *)
(***************************************************************************)
MantissaBits == 53

LimbBits == 14

Base == 2^LimbBits

RECURSIVE Trim(_)
Trim(b) == IF b # <<>> /\ b[Len(b)] = 0 THEN Trim(SubSeq(b, 1, Len(b) - 1)) ELSE b

RECURSIVE BigFromNat(_)
BigFromNat(n) == IF n = 0 THEN <<>> ELSE <<n % Base>> \o BigFromNat(n \div Base)

RECURSIVE BigToNat(_)
BigToNat(b) == IF b = <<>> THEN 0 ELSE b[1] + Base * BigToNat(Tail(b))

RECURSIVE SmallBitLen(_)
SmallBitLen(n) == IF n = 0 THEN 0 ELSE 1 + SmallBitLen(n \div 2)

\* The number of bits of b
BitLen(b) == IF b = <<>> THEN 0 ELSE LimbBits * (Len(b) - 1) + SmallBitLen(b[Len(b)])

LimbAt(b, i) == IF 1 <= i /\ i <= Len(b) THEN b[i] ELSE 0

\* Bit i of b, bit 1 the least significant
BigBit(b, i) == (LimbAt(b, ((i - 1) \div LimbBits) + 1) \div 2^((i - 1) % LimbBits)) % 2

RECURSIVE BigCmpFrom(_, _, _)
BigCmpFrom(a, b, i) ==
    IF i = 0 THEN 0
    ELSE IF a[i] > b[i] THEN 1
    ELSE IF a[i] < b[i] THEN -1
    ELSE BigCmpFrom(a, b, i - 1)

\* -1, 0, 1 as a < b, a = b, a > b
BigCmp(a, b) ==
    IF Len(a) > Len(b) THEN 1
    ELSE IF Len(a) < Len(b) THEN -1
    ELSE BigCmpFrom(a, b, Len(a))

RECURSIVE BigSubFrom(_, _, _, _)
BigSubFrom(a, b, i, borrow) ==
    IF i > Len(a) THEN <<>>
    ELSE LET t == a[i] - LimbAt(b, i) - borrow
         IN  <<t % Base>> \o BigSubFrom(a, b, i + 1, IF t < 0 THEN 1 ELSE 0)

\* a - b, for a >= b
BigSub(a, b) == Trim(BigSubFrom(a, b, 1, 0))

RECURSIVE BigAddFrom(_, _, _, _)
BigAddFrom(a, b, i, carry) ==
    IF i > Len(a) /\ i > Len(b) THEN (IF carry = 1 THEN <<1>> ELSE <<>>)
    ELSE LET t == LimbAt(a, i) + LimbAt(b, i) + carry
         IN  <<t % Base>> \o BigAddFrom(a, b, i + 1, t \div Base)

BigAdd(a, b) == BigAddFrom(a, b, 1, 0)

\* a * 2^k (k >= 0)
BigShl(a, k) ==
    LET w == k \div LimbBits
        j == k % LimbBits
    IN  Trim([i \in 1..(Len(a) + w + 1) |->
                ((LimbAt(a, i - w) % 2^(LimbBits - j)) * 2^j)
                + (LimbAt(a, i - w - 1) \div 2^(LimbBits - j))])

\* floor(a / 2^k) (k >= 0)
BigShr(a, k) ==
    LET w == k \div LimbBits
        j == k % LimbBits
    IN  Trim([i \in 1..(IF Len(a) > w THEN Len(a) - w ELSE 0) |->
                (LimbAt(a, i + w) \div 2^j)
                + ((LimbAt(a, i + w + 1) % 2^j) * 2^(LimbBits - j))])

\* a mod 2^k
BigLow(a, k) == BigSub(a, BigShl(BigShr(a, k), k))

\* a * c for a limb c: the carry stays below Base
RECURSIVE BigMulLimbFrom(_, _, _, _)
BigMulLimbFrom(a, c, i, carry) ==
    IF i > Len(a) THEN (IF carry = 0 THEN <<>> ELSE <<carry>>)
    ELSE LET t == a[i] * c + carry
         IN  <<t % Base>> \o BigMulLimbFrom(a, c, i + 1, t \div Base)

RECURSIVE BigMulFrom(_, _, _)
BigMulFrom(a, b, i) ==
    IF i > Len(b) THEN <<>>
    ELSE BigAdd(BigShl(BigMulLimbFrom(a, b[i], 1, 0), LimbBits * (i - 1)),
                BigMulFrom(a, b, i + 1))

BigMul(a, b) == Trim(BigMulFrom(a, b, 1))

\* One step of long division, at bit i of n: [i, r, q] after bringing bit i
\* down into the remainder r and appending the quotient bit to q.
DivBit(n, d, st) ==
    LET r2 == BigAdd(BigAdd(st.r, st.r), BigFromNat(BigBit(n, st.i)))
        q2 == BigAdd(st.q, st.q)
    IN  IF BigCmp(r2, d) >= 0
        THEN [i |-> st.i - 1, r |-> BigSub(r2, d), q |-> BigAdd(q2, <<1>>)]
        ELSE [i |-> st.i - 1, r |-> r2, q |-> q2]

RECURSIVE DivBits(_, _, _, _)
DivBits(n, d, st, k) ==
    IF k = 0 \/ st.i = 0 THEN st ELSE DivBits(n, d, DivBit(n, d, st), k - 1)

ChunkBits == 8

RECURSIVE DivLoop(_, _, _)
DivLoop(n, d, st) ==
    IF st.i = 0 THEN <<st.q, st.r>> ELSE DivLoop(n, d, DivBits(n, d, st, ChunkBits))

\* Long division from the most significant bit of n: <<n div d, n mod d>>
BigDivMod(n, d) == DivLoop(n, d, [i |-> BitLen(n), r |-> <<>>, q |-> <<>>])

FloatZero == [m |-> <<>>, e |-> 0]

\* floor(num * 2^s / den) and its remainder, for any integer s
ScaledDivMod(num, den, s) ==
    IF s >= 0 THEN BigDivMod(BigShl(num, s), den)
    ELSE BigDivMod(num, BigShl(den, -s))

\* The binary64 nearest to num/den * 2^e0 (round to nearest, ties to even),
\* for naturals num > 0 and den > 0.  The quotient q0 of num * 2^s0 by den
\* has MantissaBits or MantissaBits + 1 bits; in the second case its last
\* bit is the rounding bit and the remainder is the sticky part.
RoundBig(num, den, e0) ==
    LET s0  == MantissaBits + BitLen(den) - BitLen(num)
        qr  == ScaledDivMod(num, den, s0)
        q0  == qr[1]
        r0  == qr[2]
        dd  == IF s0 >= 0 THEN den ELSE BigShl(den, -s0)
        big == BitLen(q0) > MantissaBits
        q   == IF big THEN BigShr(q0, 1) ELSE q0
        c   == IF big
               THEN (IF BigBit(q0, 1) = 0 THEN -1 ELSE IF r0 = <<>> THEN 0 ELSE 1)
               ELSE BigCmp(BigAdd(r0, r0), dd)
        up  == c > 0 \/ (c = 0 /\ BigBit(q, 1) = 1)
        q1  == IF up THEN BigAdd(q, <<1>>) ELSE q
        s   == IF big THEN s0 - 1 ELSE s0
    IN  IF BitLen(q1) > MantissaBits
        THEN [m |-> BigShr(q1, 1), e |-> e0 - s + 1]
        ELSE [m |-> q1, e |-> e0 - s]

\* float(n/d) for a rational n/d >= 0: what the literal or the quotient of
\* two small integers evaluates to
FloatOfRat(x) ==
    IF x[1] = 0 THEN FloatZero ELSE RoundBig(BigFromNat(x[1]), BigFromNat(x[2]), 0)

\* x / y
FloatDiv(x, y) ==
    IF x.m = <<>> THEN FloatZero ELSE RoundBig(x.m, y.m, x.e - y.e)

\* x * y
FloatMul(x, y) ==
    IF x.m = <<>> \/ y.m = <<>> THEN FloatZero
    ELSE RoundBig(BigMul(x.m, y.m), <<1>>, x.e + y.e)

\* int(x) for x >= 0: truncation
FloatTrunc(x) ==
    IF x.e >= 0 THEN BigToNat(BigShl(x.m, x.e)) ELSE BigToNat(BigShr(x.m, -x.e))

\* np.ceil(x) for x >= 0, as an integer
FloatCeil(x) ==
    IF x.e >= 0 \/ BigLow(x.m, -x.e) = <<>> THEN FloatTrunc(x) ELSE FloatTrunc(x) + 1

(***************************************************************************)
(* numpy on matrices.  A matrix is a sequence of rows, a row a sequence of *)
(* D numbers; all reductions are along axis 0 (per column).                *)
(***************************************************************************)
NumCols(mat) == Len(mat[1])

Column(mat, j) == [i \in 1..Len(mat) |-> mat[i][j]]

RECURSIVE SumSeq(_)
SumSeq(xs) == IF xs = <<>> THEN R(0) ELSE RAdd(xs[1], SumSeq(Tail(xs)))

\* np.min / np.max of a non-empty vector: NaN as soon as one entry is NaN
RECURSIVE MinSeq(_)
MinSeq(xs) ==
    IF Len(xs) = 1 THEN xs[1]
    ELSE LET m == MinSeq(Tail(xs))
         IN  IF IsNaN(xs[1]) \/ IsNaN(m) THEN NaN
             ELSE IF RLess(xs[1], m) THEN xs[1] ELSE m

RECURSIVE MaxSeq(_)
MaxSeq(xs) ==
    IF Len(xs) = 1 THEN xs[1]
    ELSE LET m == MaxSeq(Tail(xs))
         IN  IF IsNaN(xs[1]) \/ IsNaN(m) THEN NaN
             ELSE IF RLess(m, xs[1]) THEN xs[1] ELSE m

np_min(mat) == [j \in 1..NumCols(mat) |-> MinSeq(Column(mat, j))]

np_max(mat) == [j \in 1..NumCols(mat) |-> MaxSeq(Column(mat, j))]

MeanSeq(xs) == RDiv(SumSeq(xs), R(Len(xs)))

\* The biased variance: the mean of the squared deviations from the mean
VarSeq(xs) ==
    LET m == MeanSeq(xs)
    IN  MeanSeq([i \in 1..Len(xs) |-> RMul(RSub(xs[i], m), RSub(xs[i], m))])

\* The variance scipy.stats.describe reports: its ddof is 1 whatever bias
\* is (bias corrects skewness and kurtosis only), so the squared deviations
\* are divided by N - 1, and one row gives 0/0, NaN
SampleVarSeq(xs) ==
    LET m == MeanSeq(xs)
        ss == SumSeq([i \in 1..Len(xs) |-> RMul(RSub(xs[i], m), RSub(xs[i], m))])
    IN  IF Len(xs) = 1 THEN NaN ELSE RDiv(ss, R(Len(xs) - 1))

describe_variance(mat) == [j \in 1..NumCols(mat) |-> SampleVarSeq(Column(mat, j))]

np_mean(mat) == [j \in 1..NumCols(mat) |-> MeanSeq(Column(mat, j))]

np_var(mat) == [j \in 1..NumCols(mat) |-> VarSeq(Column(mat, j))]

\* np.std: defined in the model when every column's variance is a rational
\* square
StdDefined(mat) == \A j \in 1..NumCols(mat) : RSqrt(VarSeq(Column(mat, j))) # <<>>

np_std(mat) == [j \in 1..NumCols(mat) |-> RSqrt(VarSeq(Column(mat, j)))[1]]

np_count_nonzero(mat) ==
    [j \in 1..NumCols(mat) |-> Cardinality({i \in 1..Len(mat) : mat[i][j] # R(0)})]

\* np.diff(mat, axis=0)
np_diff(mat) ==
    [i \in 1..(Len(mat) - 1) |->
        [j \in 1..NumCols(mat) |-> RSub(mat[i + 1][j], mat[i][j])]]

\* np.cumsum(mat, axis=0)
RECURSIVE np_cumsum(_)
np_cumsum(mat) ==
    IF Len(mat) <= 1 THEN mat
    ELSE LET head == np_cumsum(SubSeq(mat, 1, Len(mat) - 1))
             row == mat[Len(mat)]
         IN  Append(head, [j \in 1..Len(row) |-> RAdd(head[Len(head)][j], row[j])])

\* mat[::k, :]
Stride(mat, k) ==
    [i \in 1..((Len(mat) + k - 1) \div k) |-> mat[(i - 1) * k + 1]]

\* A variant of np.linspace that leaves the end point out (endpoint=False)
np_linspace_open(stop, n) == [j \in 1..n |-> RMul(stop, Rat(j - 1, n))]

\* np.linspace(0, stop, n), n >= 1
np_linspace(stop, n) ==
    [j \in 1..n |-> IF n = 1 THEN R(0) ELSE RMul(stop, Rat(j - 1, n - 1))]

\* np.arange(0, n) / freq
ArangeOver(n, freq) == [i \in 1..n |-> RDiv(R(i - 1), freq)]

(***************************************************************************)
(* scipy.interpolate.interp1d(kind="cubic"): the cubic spline through the  *)
(* samples with not-a-knot end conditions, here over the uniform knots     *)
(* 0, 1, ..., n (time in units of 1/freq_hz) with values ys[1..n+1],       *)
(* n >= 3.  Ms(ys, i) is the spline's second derivative at knot i: the     *)
(* interior knots satisfy M[i-1] + 4 M[i] + M[i+1] = SecondDiff(i), the    *)
(* not-a-knot conditions give M[0] = 2 M[1] - M[2] (so 6 M[1] =            *)
(* SecondDiff(1)) and the same at the other end; the tridiagonal system is *)
(* solved by forward elimination (Cp, Dp) and back substitution.           *)
(***************************************************************************)
SecondDiff(ys, i) ==
    RMul(R(6), RAdd(RSub(ys[i], RMul(R(2), ys[i + 1])), ys[i + 2]))

RECURSIVE Cp(_)
Cp(i) == IF i = 1 THEN R(0) ELSE RInv(RSub(R(4), Cp(i - 1)))

RECURSIVE Dp(_, _)
Dp(ys, i) ==
    IF i = 1 THEN RDiv(SecondDiff(ys, 1), R(6))
    ELSE RMul(RSub(SecondDiff(ys, i), Dp(ys, i - 1)), Cp(i))

RECURSIVE Ms(_, _)
Ms(ys, i) ==
    LET n == Len(ys) - 1
    IN  IF i = 0 THEN RSub(RMul(R(2), Ms(ys, 1)), Ms(ys, 2))
        ELSE IF i = n THEN RSub(RMul(R(2), Ms(ys, n - 1)), Ms(ys, n - 2))
        ELSE IF i = n - 1 \/ i = 1 THEN RDiv(SecondDiff(ys, i), R(6))
        ELSE RSub(Dp(ys, i), RMul(Cp(i), Ms(ys, i + 1)))

\* The spline's value at u, 0 <= u <= n
SplineAt(ys, u) ==
    LET n  == Len(ys) - 1
        i  == IF RFloor(u) >= n THEN n - 1 ELSE RFloor(u)
        a  == RSub(R(i + 1), u)
        b  == RSub(u, R(i))
        m0 == RDiv(Ms(ys, i), R(6))
        m1 == RDiv(Ms(ys, i + 1), R(6))
    IN  RAdd(RAdd(RMul(m0, RMul(a, RMul(a, a))), RMul(m1, RMul(b, RMul(b, b)))),
             RAdd(RMul(RSub(ys[i + 1], m0), a), RMul(RSub(ys[i + 2], m1), b)))

(***************************************************************************)
(* Bounds and inputs                                                       *)
(***************************************************************************)
\* The rows of a constructed trajectory: 0..MaxN, and 0..MaxLongN where
\* only resample is called
MaxN == 4

MaxLongN == 7

\* The columns of a constructed trajectory: 1..MaxD
MaxD == 2

\* The calls of one run, the constructor's included
MaxCalls == 3

None == <<>>

Some(v) == <<v>>

\* The rates: those a trajectory is constructed with and those it is
\* resampled to.  <<9, 7>> is the Python value 9 / 7.
Freqs == {R(1), R(2), R(9)}

Targets == {<<1, 2>>, R(1), R(2), <<9, 7>>}

Rates == Freqs \cup Targets

\* No trajectory of the model has more rows than this: resample is not
\* called on a longer one.
RowLimit == MaxLongN

\* The rows of the trajectories that two threads call into, and of those
\* transform is called on
MaxShortN == 2

(***************************************************************************)
(* The float results resample needs, for every rate and length in play:    *)
(* stride[f, t] is int(f / t), samples[n, f, t] is ceil((n / f) * t), each *)
(* operation rounded as binary64 rounds it.  They are held in the variable *)
(* fpu, which never changes, so that each is evaluated once.               *)
(***************************************************************************)
VARIABLES heap, made, last, calls, fpu, threads

vars == <<heap, made, last, calls, fpu, threads>>

FloatTable ==
    [stride  |-> [p \in Rates \X Rates |->
                    FloatTrunc(FloatDiv(FloatOfRat(p[1]), FloatOfRat(p[2])))],
     samples |-> [p \in (0..RowLimit) \X Rates \X Rates |->
                    FloatCeil(FloatMul(FloatDiv(FloatOfRat(R(p[1])), FloatOfRat(p[2])),
                                       FloatOfRat(p[3])))]]

(***************************************************************************)
(* class Trajectory.  An object is a record of its fields; a call yields   *)
(* an outcome [err, self, ret, obj, val]: the exception raised ("" for     *)
(* none), the receiver after the call, what is returned ("self", "new",    *)
(* "value" or "none"), the object constructed and the value returned.      *)
(* Steps are rows of numbers (typed Sample rows are not modelled, and      *)
(* _sample_class is None throughout).                                      *)
(***************************************************************************)
Raise(self, exc) == [err |-> exc, self |-> self, ret |-> "none", obj |-> None, val |-> None]

ReturnSelf(self) == [err |-> "", self |-> self, ret |-> "self", obj |-> None, val |-> None]

ReturnValue(self, v) == [err |-> "", self |-> self, ret |-> "value", obj |-> None, val |-> Some(v)]

\* return Trajectory(...): the constructor's exception, or the new object
ReturnNew(self, made_) ==
    IF made_.err # "" THEN Raise(self, made_.err)
    ELSE [err |-> "", self |-> self, ret |-> "new", obj |-> made_.obj, val |-> None]

\* Trajectory.array: the matrix, computed from steps on first access and
\* cached in _array; steps[0] of an empty sequence raises IndexError.
array(self) ==
    IF self._array # None THEN ReturnValue(self, self._array[1])
    ELSE IF self.steps = <<>> THEN Raise(self, "IndexError")
    ELSE ReturnValue([self EXCEPT !._array = Some(self.steps)], self.steps)

DimensionLabels == <<"Dimension 0", "Dimension 1", "Dimension 2", "Dimension 3">>

\* Trajectory.__post_init__: default labels and default time indices
post_init(self) ==
    LET a1 == IF self.dim_labels = None THEN array(self) ELSE ReturnSelf(self)
        s1 == IF self.dim_labels = None /\ a1.err = ""
              THEN [a1.self EXCEPT !.dim_labels =
                       Some(SubSeq(DimensionLabels, 1, NumCols(a1.val[1])))]
              ELSE a1.self
        a2 == IF s1.time_idxs = None THEN array(s1) ELSE ReturnSelf(s1)
    IN  IF a1.err # "" THEN [err |-> a1.err, obj |-> None]
        ELSE IF a2.err # "" THEN [err |-> a2.err, obj |-> None]
        ELSE IF s1.time_idxs # None THEN [err |-> "", obj |-> Some(s1)]
        ELSE IF s1.freq_hz = None THEN [err |-> "TypeError", obj |-> None]
        ELSE [err |-> "",
              obj |-> Some([a2.self EXCEPT !.time_idxs =
                              Some(ArangeOver(Len(a2.val[1]), s1.freq_hz[1]))])]

\* Trajectory(steps, freq_hz, time_idxs, dim_labels, angular_dims):
\* [err, obj]
Trajectory(steps, freq_hz, time_idxs, dim_labels, angular_dims) ==
    post_init([steps |-> steps, freq_hz |-> freq_hz, time_idxs |-> time_idxs,
               dim_labels |-> dim_labels, angular_dims |-> angular_dims,
               _fig |-> None, _stats |-> None, _array |-> None,
               _map_history |-> <<>>, _map_history_kwargs |-> <<>>])

\* Trajectory(...) from self's own metadata, as the transforms build it
Derived(self, steps, time_idxs) ==
    Trajectory(steps, self.freq_hz, time_idxs, self.dim_labels, self.angular_dims)

\* A variant of the statistics computed along axis 1, one entry per row
describe_rows(mat) ==
    LET t == [j \in 1..NumCols(mat) |-> Column(mat, j)]
    IN  [mean |-> np_mean(t), variance |-> describe_variance(t),
         min |-> np_min(t), max |-> np_max(t),
         non_zero_count |-> np_count_nonzero(t),
         zero_count |-> [i \in 1..NumCols(t) |-> Len(t) - np_count_nonzero(t)[i]]]

\* The module's stats(array): the per-column summary (of its fields the
\* model keeps the mean, the variance of describe, the extremes and the
\* counts)
describe(mat) ==
    [mean |-> np_mean(mat), variance |-> describe_variance(mat),
     min |-> np_min(mat), max |-> np_max(mat),
     non_zero_count |-> np_count_nonzero(mat),
     zero_count |-> [j \in 1..NumCols(mat) |-> Len(mat) - np_count_nonzero(mat)[j]]]

\* The Stats object the module's stats(array) returns when called in the
\* course of call number serial: its fields, and serial as its identity
NewStats(mat, serial) == describe(mat) @@ [id |-> serial]

\* A variant of stats that computes the statistics on every call
stats_recomputed(self) ==
    LET a == array(self)
    IN  IF a.err # "" THEN Raise(a.self, a.err)
        ELSE ReturnValue([a.self EXCEPT !._stats = Some(NewStats(a.val[1], calls + 1))],
                         NewStats(a.val[1], calls + 1))

\* Trajectory.variance: np.var(self.array, axis=0)
variance(self) ==
    LET a == array(self)
    IN  IF a.err # "" THEN Raise(a.self, a.err)
        ELSE ReturnValue(a.self, np_var(a.val[1]))

\* Trajectory.stats: computed on first call and cached in _stats
stats(self) ==
    IF self._stats # None THEN ReturnValue(self, self._stats[1])
    ELSE LET a == array(self)
         IN  IF a.err # "" THEN Raise(a.self, a.err)
             ELSE ReturnValue([a.self EXCEPT !._stats = Some(NewStats(a.val[1], calls + 1))],
                              NewStats(a.val[1], calls + 1))

\* Trajectory.plot: the figure is stored in _fig and the receiver returned.
\* 1 / freq_hz raises TypeError without a rate, and plot_trajectory indexes
\* the axes of plt.subplots(D, 1), a single Axes object when D = 1.
plot(self) ==
    LET a == array(self)
    IN  IF a.err # "" THEN Raise(a.self, a.err)
        ELSE IF self.freq_hz = None THEN Raise(a.self, "TypeError")
        ELSE IF NumCols(a.val[1]) = 1 THEN Raise(a.self, "TypeError")
        ELSE ReturnSelf([a.self EXCEPT !._fig = Some("figure")])

\* The functions map is called with: lambda s: 2 * s, lambda s: -s and
\* lambda s: s[:1]
MapFns == {"double", "negate", "head"}

ApplyFn(fn, step) ==
    IF fn = "head" THEN SubSeq(step, 1, 1)
    ELSE [j \in 1..Len(step) |-> IF fn = "double" THEN RMul(R(2), step[j]) ELSE RNeg(step[j])]

\* Trajectory.map
map(self, fn) ==
    ReturnNew(self, Derived(self, [i \in 1..Len(self.steps) |-> ApplyFn(fn, self.steps[i])],
                            self.time_idxs))

\* A variant of make_relative that overwrites the receiver and returns it
make_relative_in_place(self) ==
    LET a == array(self)
    IN  IF a.err # "" THEN Raise(a.self, a.err)
        ELSE ReturnSelf([a.self EXCEPT !.steps = np_diff(a.val[1]),
                                       !._array = Some(np_diff(a.val[1])),
                                       !.time_idxs = Some(Tail(self.time_idxs[1]))])

\* A variant of make_relative that passes all of self.time_idxs on
make_relative_all_times(self) ==
    LET a == array(self)
    IN  IF a.err # "" THEN Raise(a.self, a.err)
        ELSE ReturnNew(a.self, Derived(self, np_diff(a.val[1]), self.time_idxs))

\* Trajectory.make_relative
make_relative(self) ==
    LET a == array(self)
    IN  IF a.err # "" THEN Raise(a.self, a.err)
        ELSE ReturnNew(a.self, Derived(self, np_diff(a.val[1]),
                                       Some(SubSeq(self.time_idxs[1], 2, Len(self.time_idxs[1])))))

\* Trajectory.make_absolute: the default initial state reads the matrix,
\* then the call is recorded in the receiver's own _map_history, then the
\* matrix is read (again) for the prefix sums.
make_absolute(self, initial_state) ==
    LET a0 == IF initial_state = None THEN array(self) ELSE ReturnSelf(self)
        s1 == [a0.self EXCEPT !._map_history = Append(@, "make_relative"),
                              !._map_history_kwargs = Append(@, "{}")]
        a  == array(s1)
        init == IF initial_state = None
                THEN [j \in 1..NumCols(a.val[1]) |-> R(0)]
                ELSE initial_state[1]
    IN  IF a0.err # "" THEN Raise(a0.self, a0.err)
        ELSE IF a.err # "" THEN Raise(a.self, a.err)
        ELSE ReturnNew(a.self,
                 Derived(self,
                     [i \in 1..Len(a.val[1]) |->
                        [j \in 1..NumCols(a.val[1]) |-> RAdd(np_cumsum(a.val[1])[i][j], init[j])]],
                     self.time_idxs))

\* (array - lo) / (hi - lo) * (b - a) + a, column by column; a and b are
\* per-column vectors
Rescale(mat, lo, hi, a, b) ==
    [i \in 1..Len(mat) |->
        [j \in 1..NumCols(mat) |->
            RAdd(RMul(RDiv(RSub(mat[i][j], lo[j]), RSub(hi[j], lo[j])), RSub(b[j], a[j])),
                 a[j])]]

Broadcast(mat, x) == [j \in 1..NumCols(mat) |-> x]

\* A variant of make_minmax that takes one minimum and one maximum over the
\* whole matrix (np.min and np.max without axis=0)
make_minmax_whole_matrix(self, min, max) ==
    LET a == array(self)
        lo == MinSeq(np_min(a.val[1]))
        hi == MaxSeq(np_max(a.val[1]))
    IN  IF a.err # "" THEN Raise(a.self, a.err)
        ELSE ReturnNew(a.self,
                 Derived(self,
                     Rescale(a.val[1], Broadcast(a.val[1], lo), Broadcast(a.val[1], hi),
                             Broadcast(a.val[1], min), Broadcast(a.val[1], max)),
                     self.time_idxs))

\* Trajectory.make_minmax(min, max)
make_minmax(self, min, max) ==
    LET a == array(self)
    IN  IF a.err # "" THEN Raise(a.self, a.err)
        ELSE ReturnNew(a.self,
                 Derived(self,
                     Rescale(a.val[1], np_min(a.val[1]), np_max(a.val[1]),
                             Broadcast(a.val[1], min), Broadcast(a.val[1], max)),
                     self.time_idxs))

\* A variant of make_unminmax that takes the normalised range to be [0, 1]
\* instead of reading it off the matrix
make_unminmax_unit_range(self, orig_min, orig_max) ==
    LET a == array(self)
    IN  IF a.err # "" THEN Raise(a.self, a.err)
        ELSE ReturnNew(a.self,
                 Derived(self,
                     Rescale(a.val[1], Broadcast(a.val[1], R(0)), Broadcast(a.val[1], R(1)),
                             orig_min, orig_max),
                     self.time_idxs))

\* Trajectory.make_unminmax(orig_min, orig_max)
make_unminmax(self, orig_min, orig_max) ==
    LET a == array(self)
    IN  IF a.err # "" THEN Raise(a.self, a.err)
        ELSE ReturnNew(a.self,
                 Derived(self,
                     Rescale(a.val[1], np_min(a.val[1]), np_max(a.val[1]), orig_min, orig_max),
                     self.time_idxs))

\* Trajectory.make_standard
make_standard(self) ==
    LET a == array(self)
    IN  IF a.err # "" THEN Raise(a.self, a.err)
        ELSE ReturnNew(a.self,
                 Derived(self,
                     [i \in 1..Len(a.val[1]) |->
                        [j \in 1..NumCols(a.val[1]) |->
                            RDiv(RSub(a.val[1][i][j], np_mean(a.val[1])[j]),
                                 np_std(a.val[1])[j])]],
                     self.time_idxs))

\* A variant of make_unstandard that restores the mean but not the scale
make_unstandard_shift_only(self, mean, std) ==
    LET a == array(self)
    IN  IF a.err # "" THEN Raise(a.self, a.err)
        ELSE ReturnNew(a.self,
                 Derived(self,
                     [i \in 1..Len(a.val[1]) |->
                        [j \in 1..NumCols(a.val[1]) |-> RAdd(a.val[1][i][j], mean[j])]],
                     self.time_idxs))

\* Trajectory.make_unstandard(mean, std)
make_unstandard(self, mean, std) ==
    LET a == array(self)
    IN  IF a.err # "" THEN Raise(a.self, a.err)
        ELSE ReturnNew(a.self,
                 Derived(self,
                     [i \in 1..Len(a.val[1]) |->
                        [j \in 1..NumCols(a.val[1]) |->
                            RAdd(RMul(a.val[1][i][j], std[j]), mean[j])]],
                     self.time_idxs))

(***************************************************************************)
(* Trajectory.transform(operation, **kwargs) with operation a string.      *)
(* kwargs is a function from keyword names to values.                      *)
(***************************************************************************)
\* The names op for which the class has a method make_<op> (make_pca, which
\* the model has no value for, is left out)
MakeMethods == {"relative", "absolute", "minmax", "standard", "unminmax", "unstandard"}

\* The parameters of make_<op> after self: those without and with a
\* default, and the text of inspect.signature
Parameters(op) ==
    CASE op = "relative" ->
            [required |-> {}, optional |-> {}, text |-> "() -> 'Trajectory'"]
      [] op = "absolute" ->
            [required |-> {}, optional |-> {"initial_state"},
             text |-> "(initial_state: None | numpy.ndarray = None) -> 'Trajectory'"]
      [] op = "minmax" ->
            [required |-> {}, optional |-> {"min", "max"},
             text |-> "(min: float = 0, max: float = 1) -> 'Trajectory'"]
      [] op = "standard" ->
            [required |-> {}, optional |-> {}, text |-> "() -> 'Trajectory'"]
      [] op = "unminmax" ->
            [required |-> {"orig_min", "orig_max"}, optional |-> {},
             text |-> "(orig_min, orig_max) -> 'Trajectory'"]
      [] op = "unstandard" ->
            [required |-> {"mean", "std"}, optional |-> {},
             text |-> "(mean: numpy.ndarray, std: numpy.ndarray) -> 'Trajectory'"]

\* operation(**kwargs) binds: every parameter without a default is given
\* and every keyword is a parameter (TypeError otherwise)
Binds(op, kwargs) ==
    /\ Parameters(op).required \subseteq DOMAIN kwargs
    /\ DOMAIN kwargs \subseteq Parameters(op).required \cup Parameters(op).optional

Arg(kwargs, key, default) == IF key \in DOMAIN kwargs THEN kwargs[key] ELSE default

\* make_<op>(**kwargs)
CallMake(self, op, kwargs) ==
    IF ~Binds(op, kwargs) THEN Raise(self, "TypeError")
    ELSE CASE op = "relative"   -> make_relative(self)
           [] op = "absolute"   -> make_absolute(self, Arg(kwargs, "initial_state", None))
           [] op = "minmax"     -> make_minmax(self, Arg(kwargs, "min", R(0)),
                                               Arg(kwargs, "max", R(1)))
           [] op = "standard"   -> make_standard(self)
           [] op = "unminmax"   -> make_unminmax(self, kwargs["orig_min"], kwargs["orig_max"])
           [] op = "unstandard" -> make_unstandard(self, kwargs["mean"], kwargs["std"])

\* The messages of the two ValueErrors of transform (of the text of the
\* second the model keeps the method's name and the signature)
NotFoundError(op) == "ValueError: \"peration " \o op \o " not found in Trajectory"

MismatchError(op) ==
    "ValueError: Operation make_" \o op \o " failed. Signature is " \o Parameters(op).text

\* The callables transform is passed in place of a name, written as their
\* repr: the function def double(traj): return traj.map(lambda s: 2 * s),
\* and the receiver's own bound method make_relative
FunctionRefs == {"<function double>", "<bound method Trajectory.make_relative>"}

\* operation(**kwargs) for a callable operation: nothing but the keywords
\* is passed, so double binds only when called with traj=...
CallReference(self, operation, kwargs) ==
    IF operation = "<bound method Trajectory.make_relative>"
    THEN (IF Binds("relative", kwargs) THEN make_relative(self) ELSE Raise(self, "TypeError"))
    ELSE IF DOMAIN kwargs # {"traj"} THEN Raise(self, "TypeError")
    ELSE [map(kwargs["traj"], "double") EXCEPT !.self = self]

ReferenceError(operation) ==
    "ValueError: Operation " \o operation \o " failed. Signature is "
        \o (IF operation = "<function double>" THEN "(traj)" ELSE Parameters("relative").text)

\* getattr(self, "make_" + operation)(**kwargs), or operation(**kwargs) for
\* a callable operation
Dispatch(self, operation, kwargs) ==
    IF operation \in FunctionRefs THEN CallReference(self, operation, kwargs)
    ELSE CallMake(self, operation, kwargs)

\* except TypeError: the ValueError that names the operation and its
\* signature.  The text formats the operation: a bound method's repr is
\* that of self, Trajectory.__repr__, which calls self.stats().
TransformFailure(self, operation) ==
    LET s == IF operation = "<function double>" THEN ReturnSelf(self) ELSE stats(self)
    IN  IF s.err # "" THEN Raise(s.self, s.err)
        ELSE IF operation \in FunctionRefs THEN Raise(s.self, ReferenceError(operation))
        ELSE Raise(s.self, MismatchError(operation))

\* try: return operation(**kwargs)
Settle(out, operation) ==
    IF out.err # "TypeError" THEN out ELSE TransformFailure(out.self, operation)

\* Trajectory.transform.  Both messages are formatted before the
\* ValueError is raised: the first calls inspect.getmembers(self), which
\* reads every attribute of self and so the array property; the second
\* formats the bound method, whose repr is that of self, Trajectory.__repr__,
\* which calls self.stats().
transform(self, operation, kwargs) ==
    IF operation \notin MakeMethods \cup FunctionRefs
    THEN LET a == array(self)
         IN  IF a.err # "" THEN Raise(a.self, a.err)
             ELSE Raise(a.self, NotFoundError(operation))
    ELSE Settle(Dispatch(self, operation, kwargs), operation)

(***************************************************************************)
(* Trajectory.resample.  angular_dims is None or a record [kind, dims]:    *)
(* kind "str" with labels, or kind "int" with indices written as the       *)
(* strings "0", "1", ...                                                   *)
(***************************************************************************)
IntOf(str) == CASE str = "0" -> 0 [] str = "1" -> 1 [] str = "2" -> 2 [] OTHER -> 9

\* list.index(dim) + 1, or 0 where list.index raises ValueError
LabelIndex(labels, dim) ==
    IF \E k \in 1..Len(labels) : labels[k] = dim
    THEN CHOOSE k \in 1..Len(labels) :
            labels[k] = dim /\ \A m \in 1..(k - 1) : labels[m] # dim
    ELSE 0

\* The exception of the angular branch of upsampling, "" when angular_dims
\* is None or empty.  The labels are resolved first (list.index raises
\* ValueError); then column i is taken (IndexError past the last column)
\* and handed to scipy's RotationSpline, which takes a Rotation and fails
\* on an array (AttributeError).
AngularError(self, D) ==
    IF self.angular_dims = None \/ self.angular_dims[1].dims = <<>> THEN ""
    ELSE LET ad == self.angular_dims[1]
             first == IF ad.kind = "str" THEN LabelIndex(self.dim_labels[1], ad.dims[1]) - 1
                      ELSE IntOf(ad.dims[1])
         IN  IF ad.kind = "str"
                /\ \E k \in 1..Len(ad.dims) : LabelIndex(self.dim_labels[1], ad.dims[k]) = 0
             THEN "ValueError: label is not in list"
             ELSE IF first >= D THEN "IndexError"
             ELSE "AttributeError"

\* A variant of the downsampling factor that rounds the quotient up
DownsamplingFactorCeil(freq_hz, target_hz) == RCeil(RDiv(freq_hz, target_hz))

\* int(self.freq_hz / target_hz)
DownsamplingFactor(freq_hz, target_hz) == fpu.stride[<<freq_hz, target_hz>>]

\* np.ceil(total_duration * target_hz) + 1, total_duration = (n - 1) / freq_hz
NumSamples(n, freq_hz, target_hz) == fpu.samples[<<n - 1, freq_hz, target_hz>>] + 1

\* The cubic interpolant of every column at the new time indices
Upsampled(mat, freq_hz, times) ==
    [k \in 1..Len(times) |->
        [j \in 1..NumCols(mat) |-> SplineAt(Column(mat, j), RMul(times[k], freq_hz))]]

\* A variant of the rate comparison that never finds the rates equal
NeverSameRate(self, target_hz) == FALSE

\* self.freq_hz == target_hz
SameRate(self, target_hz) == self.freq_hz[1] = target_hz

\* A variant of the resampled trajectory that keeps the source rate
ResampledAtSourceRate(self, target_hz, resampled_array, resampled_time_idxs) ==
    Trajectory(resampled_array, self.freq_hz, Some(resampled_time_idxs),
               self.dim_labels, self.angular_dims)

\* Trajectory(resampled_array, target_hz, resampled_time_idxs, self.dim_labels,
\* self.angular_dims)
Resampled(self, target_hz, resampled_array, resampled_time_idxs) ==
    Trajectory(resampled_array, Some(target_hz), Some(resampled_time_idxs),
               self.dim_labels, self.angular_dims)

\* A variant of the missing-rate outcome that hands the receiver back
NoFrequencyIgnored(self) == ReturnSelf(self)

\* raise ValueError("Cannot resample a trajectory without a frequency")
NoFrequency(self) ==
    Raise(self, "ValueError: Cannot resample a trajectory without a frequency")

resample(self, target_hz) ==
    IF self.freq_hz = None
    THEN NoFrequency(self)
    ELSE IF SameRate(self, target_hz) THEN ReturnSelf(self)
    ELSE LET a == array(self)
             mat == a.val[1]
             f == self.freq_hz[1]
             total_duration == RDiv(R(Len(mat) - 1), f)
             num_samples == NumSamples(Len(mat), f, target_hz)
             resampled_time_idxs == np_linspace(total_duration, num_samples)
         IN  IF a.err # "" THEN Raise(a.self, a.err)
             ELSE IF Len(mat) = 0
             THEN Raise(a.self, "ValueError: Cannot resample an empty trajectory")
             ELSE IF RLess(target_hz, f)
             THEN ReturnNew(a.self,
                      Resampled(self, target_hz,
                                Stride(mat, DownsamplingFactor(f, target_hz)),
                                resampled_time_idxs))
             ELSE IF Len(mat) < 4
             THEN Raise(a.self, "ValueError: Cannot upsample a trajectory with bicubic interpolationwith less than 4 samples")
             ELSE IF AngularError(self, NumCols(mat)) # ""
             THEN Raise(a.self, AngularError(self, NumCols(mat)))
             ELSE ReturnNew(a.self,
                      Resampled(self, target_hz, Upsampled(mat, f, resampled_time_idxs),
                                resampled_time_idxs))

(***************************************************************************)
(* The program: a client that constructs a trajectory and calls its        *)
(* methods, on it and on the trajectories they return.  heap[id] is the    *)
(* object id; made[id] records the call that constructed it and last the   *)
(* latest call: its receiver (0 for the constructor), the receiver as it   *)
(* was before the call, the arguments, the exception, and the id of the    *)
(* trajectory returned (0 for none).                                       *)
(***************************************************************************)
Shapes == {"ramp", "wave", "square"}

\* Entry (i, j), from 0, of an input matrix: the rows 1 2 3 / 4 5 6 / ... of
\* the tests, an alternation of 0 and 1 beside constant columns, or squares
Entry(shape, i, j) ==
    CASE shape = "ramp"   -> R(1 + 3 * i + j)
      [] shape = "wave"   -> IF j = 0 THEN R(i % 2) ELSE R(5)
      [] shape = "square" -> R(i * i - j)

InputMatrix(shape, n, d) ==
    [i \in 1..n |-> [j \in 1..d |-> Entry(shape, i - 1, j - 1)]]

GivenLabels == <<"x", "y", "z", "w">>

\* The metadata a trajectory is constructed with: the rate, whether time
\* indices and labels are passed, and the angular dimensions
Meta(freq_hz, times, labels, angular) ==
    [freq_hz |-> freq_hz, times |-> times, labels |-> labels, angular |-> angular]

Profiles ==
    {Meta(Some(R(1)), FALSE, FALSE, None), Meta(Some(R(2)), TRUE, TRUE, None),
     Meta(None, TRUE, FALSE, None), Meta(None, FALSE, TRUE, None)}

ResampleProfiles ==
    Profiles
    \cup {Meta(Some(f), FALSE, FALSE, None) : f \in Freqs}
    \cup {Meta(Some(R(2)), TRUE, TRUE, Some([kind |-> "str", dims |-> <<"x">>])),
          Meta(Some(R(1)), FALSE, TRUE, Some([kind |-> "str", dims |-> <<"yaw">>])),
          Meta(Some(R(1)), FALSE, FALSE, Some([kind |-> "int", dims |-> <<"0">>])),
          Meta(Some(R(1)), TRUE, TRUE, None)}

\* The time indices passed with n rows: those of the rate, 0, 1, 2, ...
\* without one
GivenTimes(n, freq_hz) ==
    IF freq_hz = None THEN [i \in 1..n |-> R(i - 1)] ELSE ArangeOver(n, freq_hz[1])

NoCall == [op |-> "", recv |-> 0, before |-> None, args |-> None, err |-> "", ret |-> 0,
           val |-> None]

\* The threads that call into one trajectory at the same time
Threads == {1, 2}

\* A thread that is in no call.  A thread in a call has its position pc,
\* the method op, its receiver recv and arguments, the receiver as it was
\* when the call began, the number of the call, its local values arr (the
\* matrix) and val (the Stats object), what it computed itself, and at the
\* end the exception and the value or object id returned.
ThreadIdle ==
    [pc |-> "idle", op |-> "", recv |-> 0, args |-> None, before |-> None, serial |-> 0,
     arr |-> None, val |-> None, computed |-> {}, err |-> "", ret |-> None]

Init ==
    /\ heap = <<>>
    /\ made = <<>>
    /\ last = NoCall
    /\ calls = 0
    /\ fpu = FloatTable
    /\ threads = [t \in Threads |-> ThreadIdle]

\* The state after a call whose outcome is out
Call(op, id, args, out) ==
    /\ calls < MaxCalls
    /\ calls' = calls + 1
    /\ heap' = IF out.ret = "new"
               THEN Append([heap EXCEPT ![id] = out.self], out.obj[1])
               ELSE [heap EXCEPT ![id] = out.self]
    /\ made' = IF out.ret = "new"
               THEN Append(made, [op |-> op, parent |-> id, args |-> args])
               ELSE made
    /\ last' = [op |-> op, recv |-> id, before |-> Some(heap[id]), args |-> args,
                err |-> out.err,
                ret |-> IF out.ret = "new" THEN Len(heap) + 1
                        ELSE IF out.ret = "self" THEN id ELSE 0,
                val |-> out.val]
    /\ UNCHANGED <<fpu, threads>>

\* Trajectory(steps, freq_hz=..., time_idxs=..., dim_labels=..., angular_dims=...)
Construct(shape, n, d, p) ==
    /\ heap = <<>>
    /\ calls < MaxCalls
    /\ calls' = calls + 1
    /\ LET steps == InputMatrix(shape, n, d)
           c == Trajectory(steps, p.freq_hz,
                           IF p.times THEN Some(GivenTimes(n, p.freq_hz)) ELSE None,
                           IF p.labels THEN Some(SubSeq(GivenLabels, 1, d)) ELSE None,
                           p.angular)
           args == [shape |-> shape, n |-> n, d |-> d, profile |-> p]
       IN  /\ heap' = IF c.err = "" THEN <<c.obj[1]>> ELSE heap
           /\ made' = IF c.err = "" THEN <<[op |-> "Trajectory", parent |-> 0, args |-> args]>>
                      ELSE made
           /\ last' = [op |-> "Trajectory", recv |-> 0, before |-> None, args |-> args,
                       err |-> c.err, ret |-> IF c.err = "" THEN 1 ELSE 0, val |-> None]
    /\ UNCHANGED <<fpu, threads>>

\* The objects the client can still make a call on
Receivers == IF calls < MaxCalls THEN DOMAIN heap ELSE {}

Resample(id, target_hz) ==
    /\ Len(heap[id].steps) <= RowLimit
    /\ Call("resample", id, [target_hz |-> target_hz], resample(heap[id], target_hz))

\* The vectors of src fit the columns of id (an empty id raises before it
\* reads them)
SameWidth(id, src) ==
    IF heap[id].steps = <<>> THEN TRUE
    ELSE Len(heap[id].steps[1]) = Len(heap[src].steps[1])

MakeRelative(id) == Call("make_relative", id, None, make_relative(heap[id]))

\* make_absolute(), or make_absolute(initial_state) with the first row of
\* a trajectory src of the same width
MakeAbsolute(id, src) ==
    IF src = 0
    THEN Call("make_absolute", id, [initial_state |-> None],
              make_absolute(heap[id], None))
    ELSE /\ heap[src].steps # <<>>
         /\ SameWidth(id, src)
         /\ Call("make_absolute", id, [initial_state |-> Some(heap[src].steps[1])],
                 make_absolute(heap[id], Some(heap[src].steps[1])))

\* The output ranges make_minmax is called with: (min, max)
Ranges == {<<R(0), R(1)>>, <<R(-1), R(255)>>}

MakeMinmax(id, range) ==
    Call("make_minmax", id, [min |-> range[1], max |-> range[2]],
         make_minmax(heap[id], range[1], range[2]))

\* make_unminmax(orig_min, orig_max) with the column minima and maxima of
\* a trajectory src of the same width
MakeUnminmax(id, src) ==
    /\ heap[src].steps # <<>>
    /\ SameWidth(id, src)
    /\ Call("make_unminmax", id,
            [orig_min |-> np_min(heap[src].steps), orig_max |-> np_max(heap[src].steps)],
            make_unminmax(heap[id], np_min(heap[src].steps), np_max(heap[src].steps)))

\* make_standard, where the model has a value for the standard deviation
MakeStandard(id) ==
    /\ heap[id].steps # <<>> => StdDefined(heap[id].steps)
    /\ Call("make_standard", id, None, make_standard(heap[id]))

\* make_unstandard(mean, std) with the column means and standard
\* deviations of a trajectory src of the same width
MakeUnstandard(id, src) ==
    /\ heap[src].steps # <<>>
    /\ SameWidth(id, src)
    /\ StdDefined(heap[src].steps)
    /\ Call("make_unstandard", id,
            [mean |-> np_mean(heap[src].steps), std |-> np_std(heap[src].steps)],
            make_unstandard(heap[id], np_mean(heap[src].steps), np_std(heap[src].steps)))

Map(id, fn) == Call("map", id, [fn |-> fn], map(heap[id], fn))

Plot(id) == Call("plot", id, None, plot(heap[id]))

Stats(id) == Call("stats", id, None, stats(heap[id]))

Array(id) == Call("array", id, None, array(heap[id]))

Variance(id) == Call("variance", id, None, variance(heap[id]))

Next ==
    \/ \E shape \in Shapes, n \in 0..MaxN, d \in 1..MaxD, p \in Profiles :
          Construct(shape, n, d, p)
    \/ \E id \in Receivers, target_hz \in Targets : Resample(id, target_hz)
    \/ \E id \in Receivers : MakeRelative(id)
    \/ \E id \in Receivers, src \in {0} \cup DOMAIN heap : MakeAbsolute(id, src)
    \/ \E id \in Receivers, range \in Ranges : MakeMinmax(id, range)
    \/ \E id \in Receivers, src \in DOMAIN heap : MakeUnminmax(id, src)
    \/ \E id \in Receivers : MakeStandard(id)
    \/ \E id \in Receivers, src \in DOMAIN heap : MakeUnstandard(id, src)
    \/ \E id \in Receivers, fn \in MapFns : Map(id, fn)
    \/ \E id \in Receivers : Plot(id)
    \/ \E id \in Receivers : Stats(id)
    \/ \E id \in Receivers : Array(id)

Spec == Init /\ [][Next]_vars

\* Longer trajectories at more rates, and only resample called on them
NextResample ==
    \/ \E shape \in Shapes, n \in 0..MaxLongN, d \in 1..MaxD, p \in ResampleProfiles :
          Construct(shape, n, d, p)
    \/ \E id \in Receivers, target_hz \in Targets : Resample(id, target_hz)

SpecResample == Init /\ [][NextResample]_vars

\* Doubling the rate, at the rates of the test (1 Hz to 2 Hz) and at 187 Hz
UpsampleRates == {R(1), R(2), R(187), R(374)}

Doubled(freq_hz) == RMul(R(2), freq_hz)

\* The float results of resample for a doubled rate
DoublingTable ==
    [stride  |-> [p \in {<<f, Doubled(f)>> : f \in UpsampleRates} |->
                    FloatTrunc(FloatDiv(FloatOfRat(p[1]), FloatOfRat(p[2])))],
     samples |-> [p \in {<<n, f, Doubled(f)>> : n \in 0..RowLimit, f \in UpsampleRates} |->
                    FloatCeil(FloatMul(FloatDiv(FloatOfRat(R(p[1])), FloatOfRat(p[2])),
                                       FloatOfRat(p[3])))]]

InitUpsample ==
    /\ heap = <<>>
    /\ made = <<>>
    /\ last = NoCall
    /\ calls = 0
    /\ fpu = DoublingTable
    /\ threads = [t \in Threads |-> ThreadIdle]

\* Trajectories at 1 Hz and at 187 Hz, resampled to twice their rate
NextUpsample ==
    \/ \E shape \in Shapes, n \in 0..MaxLongN, d \in 1..MaxD, f \in {R(1), R(187)} :
          Construct(shape, n, d, Meta(Some(f), FALSE, FALSE, None))
    \/ \E id \in Receivers : Resample(id, Doubled(heap[id].freq_hz[1]))

SpecUpsample == InitUpsample /\ [][NextUpsample]_vars

(***************************************************************************)
(* Two threads calling methods of the same trajectories.  A call advances  *)
(* in steps between which the other thread may run: the test, the store    *)
(* and the read of each cache of array and stats, then the rest of the     *)
(* method in one step (it reads the receiver and builds the result; the    *)
(* append to _map_history in it is one list.append).                       *)
(***************************************************************************)
\* The calls a thread makes
ThreadCalls ==
    {[op |-> "stats", args |-> None], [op |-> "array", args |-> None],
     [op |-> "make_relative", args |-> None],
     [op |-> "make_absolute", args |-> [initial_state |-> None]],
     [op |-> "make_minmax", args |-> [min |-> R(0), max |-> R(1)]],
     [op |-> "make_standard", args |-> None],
     [op |-> "resample", args |-> [target_hz |-> R(1)]],
     [op |-> "map", args |-> [fn |-> "double"]]}

\* The outcome of self.op(args) run on its own
Invoke(op, self, args) ==
    CASE op = "make_relative" -> make_relative(self)
      [] op = "make_absolute" -> make_absolute(self, args.initial_state)
      [] op = "make_minmax"   -> make_minmax(self, args.min, args.max)
      [] op = "make_standard" -> make_standard(self)
      [] op = "resample"      -> resample(self, args.target_hz)
      [] op = "map"           -> map(self, args.fn)

\* Where a call begins: stats at its test of _stats; map, and resample
\* where it returns before reading the matrix, at the body; the others at
\* the array property
FirstPc(op, self, args) ==
    CASE op = "stats" -> "stats_test"
      [] op = "map" -> "apply"
      [] op = "resample" ->
            IF self.freq_hz = None THEN "apply"
            ELSE IF SameRate(self, args.target_hz) THEN "apply" ELSE "array_test"
      [] OTHER -> "array_test"

Step(t, fields) == threads' = [threads EXCEPT ![t] = fields @@ threads[t]]

\* Thread t calls op(args) on object id (the threads being alike, thread 1
\* is taken to be the one that calls first)
Start(t, id, call) ==
    /\ calls < MaxCalls
    /\ threads[t].pc = "idle"
    /\ \A u \in Threads : u < t => threads[u].pc # "idle"
    /\ (call.op = "make_standard" /\ heap[id].steps # <<>>) => StdDefined(heap[id].steps)
    /\ calls' = calls + 1
    /\ Step(t, [pc |-> FirstPc(call.op, heap[id], call.args), op |-> call.op, recv |-> id,
                args |-> call.args, before |-> Some(heap[id]), serial |-> calls + 1])
    /\ UNCHANGED <<heap, made, last, fpu>>

\* stats: if self._stats is None
StatsTest(t) ==
    /\ threads[t].pc = "stats_test"
    /\ Step(t, [pc |-> IF heap[threads[t].recv]._stats = None THEN "array_test"
                       ELSE "stats_return"])
    /\ UNCHANGED <<heap, made, last, calls, fpu>>

\* array: if self._array is None, and the evaluation of np.array(self.steps)
ArrayTest(t) ==
    /\ threads[t].pc = "array_test"
    /\ LET self == heap[threads[t].recv]
       IN  IF self._array # None THEN Step(t, [pc |-> "array_return"])
           ELSE IF self.steps = <<>> THEN Step(t, [pc |-> "done", err |-> "IndexError"])
           ELSE Step(t, [pc |-> "array_store", arr |-> Some(self.steps),
                         computed |-> threads[t].computed \cup {"array"}])
    /\ UNCHANGED <<heap, made, last, calls, fpu>>

\* array: self._array = ...
ArrayStore(t) ==
    /\ threads[t].pc = "array_store"
    /\ heap' = [heap EXCEPT ![threads[t].recv]._array = threads[t].arr]
    /\ Step(t, [pc |-> "array_return"])
    /\ UNCHANGED <<made, last, calls, fpu>>

\* array: return self._array; for stats, the evaluation of
\* stats(self.array, ...) follows
ArrayReturn(t) ==
    /\ threads[t].pc = "array_return"
    /\ LET arr == heap[threads[t].recv]._array
       IN  CASE threads[t].op = "array" ->
                  Step(t, [pc |-> "done", arr |-> arr, ret |-> arr])
             [] threads[t].op = "stats" ->
                  Step(t, [pc |-> "stats_store", arr |-> arr,
                           val |-> Some(NewStats(arr[1], threads[t].serial)),
                           computed |-> threads[t].computed \cup {"stats"}])
             [] OTHER -> Step(t, [pc |-> "apply", arr |-> arr])
    /\ UNCHANGED <<heap, made, last, calls, fpu>>

\* stats: self._stats = ...
StatsStore(t) ==
    /\ threads[t].pc = "stats_store"
    /\ heap' = [heap EXCEPT ![threads[t].recv]._stats = threads[t].val]
    /\ Step(t, [pc |-> "stats_return"])
    /\ UNCHANGED <<made, last, calls, fpu>>

\* stats: return self._stats
StatsReturn(t) ==
    /\ threads[t].pc = "stats_return"
    /\ Step(t, [pc |-> "done", ret |-> heap[threads[t].recv]._stats])
    /\ UNCHANGED <<heap, made, last, calls, fpu>>

\* The body of a transform, to its return
Apply(t) ==
    /\ threads[t].pc = "apply"
    /\ LET id == threads[t].recv
           out == Invoke(threads[t].op, heap[id], threads[t].args)
       IN  /\ heap' = IF out.ret = "new"
                      THEN Append([heap EXCEPT ![id] = out.self], out.obj[1])
                      ELSE [heap EXCEPT ![id] = out.self]
           /\ made' = IF out.ret = "new"
                      THEN Append(made, [op |-> threads[t].op, parent |-> id,
                                         args |-> threads[t].args])
                      ELSE made
           /\ Step(t, [pc |-> "done", err |-> out.err,
                       ret |-> IF out.ret = "new" THEN Some(Len(heap) + 1)
                               ELSE IF out.ret = "self" THEN Some(id) ELSE None])
    /\ UNCHANGED <<last, calls, fpu>>

\* Short trajectories, and two threads that make one call each
NextThreads ==
    \/ \E n \in 0..MaxShortN, d \in 1..MaxD, p \in Profiles :
          Construct("ramp", n, d, p)
    \/ \E t \in Threads, id \in DOMAIN heap, call \in ThreadCalls : Start(t, id, call)
    \/ \E t \in Threads : StatsTest(t)
    \/ \E t \in Threads : ArrayTest(t)
    \/ \E t \in Threads : ArrayStore(t)
    \/ \E t \in Threads : ArrayReturn(t)
    \/ \E t \in Threads : StatsStore(t)
    \/ \E t \in Threads : StatsReturn(t)
    \/ \E t \in Threads : Apply(t)

SpecThreads == Init /\ [][NextThreads]_vars

\* The operation names transform is called with: those of MakeMethods and
\* one that names no method
OperationNames == MakeMethods \cup {"smooth"}

NumKeywords == 8

\* The keyword arguments transform is called with on a trajectory of w
\* columns
Keywords(k, w) ==
    CASE k = 1 -> [key \in {} |-> R(0)]
      [] k = 2 -> [min |-> R(0), max |-> R(255)]
      [] k = 3 -> [max |-> R(255)]
      [] k = 4 -> [initial_state |-> Some([j \in 1..w |-> R(1)])]
      [] k = 5 -> [orig_min |-> [j \in 1..w |-> R(0)], orig_max |-> [j \in 1..w |-> R(10)]]
      [] k = 6 -> [orig_min |-> [j \in 1..w |-> R(0)]]
      [] k = 7 -> [mean |-> [j \in 1..w |-> R(1)], std |-> [j \in 1..w |-> R(2)]]
      [] k = 8 -> [scale |-> R(2)]

\* transform(operation, **kwargs), where the model has a value for the
\* standard deviation
Transform(id, operation, k) ==
    LET kwargs == Keywords(k, Len(heap[id].dim_labels[1]))
    IN  /\ (operation = "standard" /\ heap[id].steps # <<>>) => StdDefined(heap[id].steps)
        /\ Call("transform", id, [operation |-> operation, kwargs |-> kwargs],
                transform(heap[id], operation, kwargs))

\* Short trajectories, and only transform called on them
NextTransform ==
    \/ \E n \in 0..MaxShortN, d \in 1..MaxD, p \in Profiles :
          Construct("ramp", n, d, p)
    \/ \E id \in Receivers, operation \in OperationNames \cup FunctionRefs,
             k \in 1..NumKeywords :
          Transform(id, operation, k)

SpecTransform == Init /\ [][NextTransform]_vars

\* The statistics of every input matrix and of what map makes of it
NextStats ==
    \/ \E shape \in Shapes, n \in 0..MaxN, d \in 1..MaxD, p \in Profiles :
          Construct(shape, n, d, p)
    \/ \E id \in Receivers, fn \in MapFns : Map(id, fn)
    \/ \E id \in Receivers : Stats(id)
    \/ \E id \in Receivers : Variance(id)

SpecStats == Init /\ [][NextStats]_vars

(***************************************************************************)
(* Properties.  Parent(id) is the receiver of the call that returned       *)
(* object id, and the matrix of an object is its steps (array is           *)
(* np.array(steps)).                                                       *)
(***************************************************************************)
Parent(id) == made[id].parent

MadeBy(id, op) == made[id].op = op

Rows(id) == heap[id].steps

LastRow(id) == Rows(id)[Len(Rows(id))]

TimeIdxs(id) == heap[id].time_idxs[1]

\* Object c is T.make_relative().make_absolute(first row of T), T with at
\* least 2 rows
RelativeAbsolute(c) ==
    /\ MadeBy(c, "make_absolute")
    /\ MadeBy(Parent(c), "make_relative")
    /\ Len(Rows(Parent(Parent(c)))) >= 2
    /\ made[c].args.initial_state = Some(Rows(Parent(Parent(c)))[1])

\* C1: for every trajectory T with at least 2 rows, make_relative followed
\* by make_absolute(first row of T) yields a trajectory whose matrix is T's
\* matrix, the same N rows with the same values.
C1_RelativeAbsoluteRoundTrip ==
    \A c \in DOMAIN heap :
        RelativeAbsolute(c) => Rows(c) = Rows(Parent(Parent(c)))

\* C2: every trajectory, constructed or returned by any sequence of
\* resample, make_* and map calls, has as many time indices as its matrix
\* has rows.
C2_TimeIndexPerRow ==
    \A id \in DOMAIN heap : Len(TimeIdxs(id)) = Len(Rows(id))

\* The rows 0, k, 2k, ... (below N) of a matrix of N rows
EveryKth(rows, k) ==
    [i \in 1..((Len(rows) - 1) \div k + 1) |-> rows[(i - 1) * k + 1]]

\* Object b is a.resample(f / k) for a at rate f and an integer k >= 2
DownsampledBy(b, k) ==
    /\ MadeBy(b, "resample")
    /\ RDiv(heap[Parent(b)].freq_hz[1], made[b].args.target_hz) = R(k)

\* C3: for a trajectory at rate f and every integer k >= 2, resample(f / k)
\* returns exactly the source rows 0, k, 2k, ... in order, uninterpolated.
C3_DownsampleEveryKth ==
    \A b \in DOMAIN heap : \A k \in 2..(2 * MaxLongN) :
        DownsampledBy(b, k) => Rows(b) = EveryKth(Rows(Parent(b)), k)

\* (N - 1) / source rate of the trajectory b was resampled from
SourceDuration(b) ==
    RDiv(R(Len(Rows(Parent(b))) - 1), heap[Parent(b)].freq_hz[1])

MinmaxUnminmax(c) ==
    /\ MadeBy(c, "make_unminmax")
    /\ MadeBy(Parent(c), "make_minmax")
    /\ RLess(made[Parent(c)].args.min, made[Parent(c)].args.max)
    /\ LET T == Rows(Parent(Parent(c)))
       IN  /\ made[c].args.orig_min = np_min(T)
           /\ made[c].args.orig_max = np_max(T)
           /\ \A j \in 1..NumCols(T) : RLess(np_min(T)[j], np_max(T)[j])

\* C5: for every trajectory T with max > min in each dimension and every
\* lo < hi, make_minmax(lo, hi) followed by make_unminmax with T's own
\* per-dimension min and max yields T's matrix.
C5_MinmaxRoundTrip ==
    \A c \in DOMAIN heap :
        MinmaxUnminmax(c) => Rows(c) = Rows(Parent(Parent(c)))

\* The round trip of three or more rows through a range other than [0, 1]
C5_Witness ==
    \E c \in DOMAIN heap :
        /\ MinmaxUnminmax(c)
        /\ Len(Rows(c)) >= 3
        /\ made[Parent(c)].args.min # R(0)
        /\ Rows(Parent(c)) # Rows(c)

\* Object c is T.make_standard().make_unstandard(mean of T, std of T), with
\* a non-zero standard deviation in every dimension of T
StandardUnstandard(c) ==
    /\ MadeBy(c, "make_unstandard")
    /\ MadeBy(Parent(c), "make_standard")
    /\ LET T == Rows(Parent(Parent(c)))
       IN  /\ StdDefined(T)
           /\ made[c].args.mean = np_mean(T)
           /\ made[c].args.std = np_std(T)
           /\ \A j \in 1..NumCols(T) : RLess(R(0), np_std(T)[j])

\* C6: for every trajectory T with a non-zero standard deviation in each
\* dimension, make_standard followed by make_unstandard with T's own
\* per-dimension mean and standard deviation yields T's matrix.
C6_StandardRoundTrip ==
    \A c \in DOMAIN heap :
        StandardUnstandard(c) => Rows(c) = Rows(Parent(Parent(c)))

\* The round trip of four rows whose standardised form differs from them
C6_Witness ==
    \E c \in DOMAIN heap :
        /\ StandardUnstandard(c)
        /\ Len(Rows(c)) = 4
        /\ Rows(Parent(c)) # Rows(c)

\* C7: whenever resample(r) succeeds on a trajectory T with a rate, the
\* trajectory returned has freq_hz = r and T's dim_labels and angular_dims.
C7_ResampleSetsRate ==
    (last.op = "resample" /\ last.err = "") =>
        /\ heap[last.ret].freq_hz = Some(last.args.target_hz)
        /\ heap[last.ret].dim_labels = last.before[1].dim_labels
        /\ heap[last.ret].angular_dims = last.before[1].angular_dims

\* A resampling to another rate of a trajectory with given labels and
\* angular dimensions
C7_Witness ==
    /\ last.op = "resample"
    /\ last.err = ""
    /\ last.ret # last.recv
    /\ last.before[1].angular_dims # None
    /\ last.before[1].dim_labels = Some(SubSeq(GivenLabels, 1, 2))
    /\ heap[last.ret].freq_hz # last.before[1].freq_hz

\* C8: resample at the trajectory's own rate is a no-op: it returns the
\* same object, whose matrix, time indices and metadata are unchanged,
\* for every trajectory that has a rate.
C8_SameRateIsIdentity ==
    (last.op = "resample" /\ last.before[1].freq_hz = Some(last.args.target_hz)) =>
        /\ last.err = ""
        /\ last.ret = last.recv
        /\ heap[last.recv] = last.before[1]
        /\ Len(heap) = Len(made)

\* The no-op on a trajectory of fewer than four rows, on which resampling
\* upwards fails
C8_Witness ==
    /\ last.op = "resample"
    /\ last.ret = last.recv
    /\ Len(Rows(last.recv)) \in 1..3
    /\ heap[last.recv].freq_hz = Some(R(2))

\* The operations the specification calls transforms
Transforms ==
    {"make_relative", "make_absolute", "make_minmax", "make_unminmax",
     "make_standard", "make_unstandard", "resample", "map"}

\* The state of a trajectory a caller can observe: steps (and so the
\* matrix), rate, time indices, labels, angular dimensions, map history
Observable(self) ==
    [steps |-> self.steps, freq_hz |-> self.freq_hz, time_idxs |-> self.time_idxs,
     dim_labels |-> self.dim_labels, angular_dims |-> self.angular_dims,
     _map_history |-> self._map_history,
     _map_history_kwargs |-> self._map_history_kwargs]

\* C9: no transform mutates its input: after any transform called on T,
\* T's steps, matrix, freq_hz, time_idxs, dim_labels, angular_dims and
\* recorded map history are what they were before the call.
C9_TransformsLeaveReceiver ==
    last.op \in Transforms =>
        Observable(heap[last.recv]) = Observable(last.before[1])

C11_LabelsMatchColumns ==
    \A id \in DOMAIN heap :
        Rows(id) # <<>> => Len(heap[id].dim_labels[1]) = NumCols(Rows(id))

\* C12: constructing a trajectory from N >= 1 rows with no rate and no
\* time indices succeeds and yields a trajectory holding those rows.
C12_RateIsOptional ==
    (/\ last.op = "Trajectory"
     /\ last.args.n >= 1
     /\ last.args.profile.freq_hz = None
     /\ ~last.args.profile.times) =>
        /\ last.err = ""
        /\ last.ret = 1
        /\ Rows(1) = InputMatrix(last.args.shape, last.args.n, last.args.d)

\* C13: resample on a trajectory that has no rate fails, for every target,
\* with ValueError "Cannot resample a trajectory without a frequency", and
\* returns no trajectory.
C13_ResampleNeedsRate ==
    (last.op = "resample" /\ last.before[1].freq_hz = None) =>
        /\ last.err = "ValueError: Cannot resample a trajectory without a frequency"
        /\ last.ret = 0
        /\ Len(heap) = Len(made)
        /\ heap[last.recv] = last.before[1]

\* resample on a trajectory of four or more rows that has time indices
\* but no rate
C13_Witness ==
    /\ last.op = "resample"
    /\ last.before[1].freq_hz = None
    /\ Len(last.before[1].steps) >= 4
    /\ last.err # ""
    /\ last.ret = 0

\* C14: a trajectory with zero steps fails fast: stats() fails, and
\* resample to a rate other than its own fails with ValueError "Cannot
\* resample an empty trajectory".
C14_EmptyFailsFast ==
    /\ (last.op = "stats" /\ last.before[1].steps = <<>>) => last.err # ""
    /\ (/\ last.op = "resample"
        /\ last.before[1].steps = <<>>
        /\ last.before[1].freq_hz \notin {None, Some(last.args.target_hz)}) =>
           last.err = "ValueError: Cannot resample an empty trajectory"

\* The ValueErrors resample raises
ValueErrors ==
    {"ValueError: Cannot resample a trajectory without a frequency",
     "ValueError: Cannot resample an empty trajectory",
     "ValueError: Cannot upsample a trajectory with bicubic interpolationwith less than 4 samples",
     "ValueError: label is not in list"}

\* C15: resampling to a higher rate fails with a ValueError and returns no
\* trajectory when the source has fewer than 4 rows, and succeeds when it
\* has 4 or more rows and no angular dimensions.
C15_UpsampleNeedsFourRows ==
    (/\ last.op = "resample"
     /\ last.before[1].freq_hz # None
     /\ RLess(last.before[1].freq_hz[1], last.args.target_hz)) =>
        IF Len(last.before[1].steps) < 4
        THEN last.err \in ValueErrors /\ last.ret = 0
        ELSE last.before[1].angular_dims = None =>
                (last.err = "" /\ last.ret = Len(heap) /\ last.ret # last.recv)

\* C16: resampling N >= 4 rows from rate f to a rate r > f yields exactly
\* ceil(((N-1)/f) * r) + 1 rows, at uniformly spaced times from 0 to
\* (N-1)/f, whose first and last rows are the first and last source rows.
C16_UpsampleRowCount ==
    (/\ last.op = "resample"
     /\ last.err = ""
     /\ last.before[1].freq_hz # None
     /\ RLess(last.before[1].freq_hz[1], last.args.target_hz)
     /\ Len(last.before[1].steps) >= 4) =>
        LET src == last.before[1].steps
            duration == RDiv(R(Len(src) - 1), last.before[1].freq_hz[1])
            count == RCeil(RMul(duration, last.args.target_hz)) + 1
        IN  /\ Len(Rows(last.ret)) = count
            /\ TimeIdxs(last.ret) =
                   [k \in 1..count |-> RDiv(RMul(duration, R(k - 1)), R(count - 1))]
            /\ Rows(last.ret)[1] = src[1]
            /\ LastRow(last.ret) = src[Len(src)]

\* C17: stats() is cached: over any sequence of calls on a trajectory the
\* statistics and the matrix are each computed at most once (once set,
\* _stats and _array are never replaced), the first stats() returns the
\* object it caches, and every later stats() returns that very object.
C17_StatsComputedOnce ==
    /\ [](last.op = "stats" /\ last.err = "" =>
            /\ last.val = heap[last.recv]._stats
            /\ last.before[1]._stats # None => last.val = last.before[1]._stats)
    /\ [](last.op = "array" /\ last.err = "" =>
            /\ last.val = heap[last.recv]._array
            /\ last.before[1]._array # None => last.val = last.before[1]._array)
    /\ [][\A id \in DOMAIN heap :
            /\ heap[id]._stats # None => heap'[id]._stats = heap[id]._stats
            /\ heap[id]._array # None => heap'[id]._array = heap[id]._array]_vars

\* A second stats() on a trajectory, returning the object an earlier call
\* computed
C17_Witness ==
    /\ last.op = "stats"
    /\ last.err = ""
    /\ last.before[1]._stats # None
    /\ last.val[1].id < calls
    /\ Len(Rows(last.recv)) >= 2

\* Thread t has returned from a call of op on object id without an exception
Returned(t, op, id) ==
    /\ threads[t].pc = "done"
    /\ threads[t].op = op
    /\ threads[t].recv = id
    /\ threads[t].err = ""

\* C18: when two threads access the matrix, or call stats(), of the same
\* trajectory for the first time at once, under every interleaving the
\* value is computed at most once and both threads observe the same object.
C18_FirstAccessGuarded ==
    \A id \in DOMAIN heap :
        /\ \A what \in {"array", "stats"} :
              Cardinality({t \in Threads : threads[t].recv = id
                                           /\ what \in threads[t].computed}) <= 1
        /\ \A t1, t2 \in Threads :
              (Returned(t1, "stats", id) /\ Returned(t2, "stats", id)) =>
                  threads[t1].ret = threads[t2].ret

\* C19: when two threads each run a transform on the same source, under
\* every interleaving each gets the result it gets when run alone (seen
\* before any call is made on that result) and the source is not mutated.
C19_ConcurrentTransformsSafe ==
    \A t \in Threads :
        (threads[t].pc = "done" /\ threads[t].op \in Transforms) =>
            LET alone == Invoke(threads[t].op, threads[t].before[1], threads[t].args)
            IN  /\ threads[t].err = alone.err
                /\ (alone.ret = "new" /\ \A u \in Threads : threads[u].recv # threads[t].ret[1]) =>
                      Observable(heap[threads[t].ret[1]]) = Observable(alone.obj[1])
                /\ alone.ret = "self" => threads[t].ret = Some(threads[t].recv)
                /\ Observable(heap[threads[t].recv]) = Observable(threads[t].before[1])

\* The call of transform is one the validation rejects: the name has no
\* make_ method, or the keywords do not fit the method's signature
Rejected(operation, kwargs) ==
    IF operation \notin MakeMethods THEN TRUE ELSE ~Binds(operation, kwargs)

\* C20: transform(op, **kwargs) fails with a ValueError and returns no
\* trajectory exactly when op names no make_<op> method or the keywords do
\* not match the method's signature; the error for a keyword mismatch names
\* the method and echoes its signature; a call whose name resolves and
\* whose keywords match raises no such error.
C20_TransformValidation ==
    (last.op = "transform" /\ last.args.operation \in OperationNames) =>
        LET operation == last.args.operation
        IN  IF Rejected(operation, last.args.kwargs)
            THEN /\ last.ret = 0
                 /\ last.err = IF operation \in MakeMethods THEN MismatchError(operation)
                                ELSE NotFoundError(operation)
            ELSE last.err \notin {NotFoundError(operation), MismatchError(operation)}

\* C21: transform dispatches by name or by function reference: for a name
\* and keywords that fit, T.transform(name, **kwargs) gives what
\* T.make_<name>(**kwargs) gives; T.transform(fn) with a function fn applies
\* fn to T and returns its result.
C21_TransformDispatch ==
    last.op = "transform" =>
        LET operation == last.args.operation
            self == last.before[1]
            direct == IF operation = "<function double>" THEN map(self, "double")
                      ELSE IF operation \in FunctionRefs
                      THEN CallMake(self, "relative", last.args.kwargs)
                      ELSE CallMake(self, operation, last.args.kwargs)
            applies == \/ operation = "<function double>" /\ DOMAIN last.args.kwargs = {}
                       \/ operation \in FunctionRefs \ {"<function double>"}
                          /\ Binds("relative", last.args.kwargs)
                       \/ operation \in MakeMethods /\ Binds(operation, last.args.kwargs)
        IN  applies =>
               /\ last.err = direct.err
               /\ heap[last.recv] = direct.self
               /\ direct.ret = "new" =>
                     (last.ret = Len(heap) /\ heap[last.ret] = direct.obj[1])

\* C22: the variance stats() reports is the biased estimator: for a matrix
\* of N >= 1 rows, each dimension's stats().variance is the sum of the
\* squared deviations from the mean divided by N (6 for the column 1, 4, 7),
\* the value the variance() accessor returns.
C22_StatsVarianceBiased ==
    (last.op = "stats" /\ last.err = "") =>
        LET mat == Rows(last.recv)
        IN  /\ \A j \in 1..NumCols(mat) : last.val[1].variance[j] = VarSeq(Column(mat, j))
            /\ last.val[1].variance = variance(heap[last.recv]).val[1]

\* C23: for a matrix of N >= 1 rows and D >= 1 columns (D = 1 included),
\* every field of stats() is a vector of length D; mean, min and max are
\* the column-wise mean, minimum and maximum, and zero_count and
\* non_zero_count the column-wise numbers of zero and non-zero entries,
\* which sum to N.
C23_StatsPerDimension ==
    (last.op = "stats" /\ last.err = "") =>
        LET mat == Rows(last.recv)
            N == Len(mat)
            D == NumCols(mat)
            st == last.val[1]
        IN  /\ \A field \in {"mean", "variance", "min", "max", "non_zero_count", "zero_count"} :
                  DOMAIN st[field] = 1..D
            /\ \A j \in 1..D :
                  /\ RMul(st.mean[j], R(N)) = SumSeq(Column(mat, j))
                  /\ \E i \in 1..N : st.min[j] = mat[i][j]
                  /\ \A i \in 1..N : ~RLess(mat[i][j], st.min[j])
                  /\ \E i \in 1..N : st.max[j] = mat[i][j]
                  /\ \A i \in 1..N : ~RLess(st.max[j], mat[i][j])
                  /\ st.zero_count[j] = Cardinality({i \in 1..N : mat[i][j] = R(0)})
                  /\ st.non_zero_count[j] = Cardinality({i \in 1..N : mat[i][j] # R(0)})
                  /\ st.zero_count[j] + st.non_zero_count[j] = N

\* stats() has returned for a single column of three rows with two zeros
C23_Witness ==
    /\ last.op = "stats"
    /\ last.err = ""
    /\ Rows(last.recv) = InputMatrix("wave", 3, 1)
    /\ last.val[1].zero_count = <<2>>
    /\ last.val[1].mean = <<Rat(1, 3)>>

\* C24: an angular-dimension label that does not resolve against dim_labels
\* is reported as an error: resample to a different rate, lower or higher,
\* of a trajectory whose angular_dims holds a label absent from dim_labels
\* fails and returns no trajectory.
C24_UnresolvedAngularLabelFails ==
    LET self == last.before[1]
    IN  (/\ last.op = "resample"
         /\ self.freq_hz # None
         /\ self.angular_dims # None)
        => ((/\ self.freq_hz[1] # last.args.target_hz
             /\ self.angular_dims[1].kind = "str"
             /\ \E k \in 1..Len(self.angular_dims[1].dims) :
                   LabelIndex(self.dim_labels[1], self.angular_dims[1].dims[k]) = 0)
            => (last.err # "" /\ last.ret = 0))

\* C25: make_relative on a trajectory of N >= 2 rows returns a new
\* trajectory of exactly N - 1 rows, row i being source row i + 1 minus
\* source row i, whose time indices are the source's without the first,
\* with the same freq_hz, dim_labels and angular_dims (the rows 1 2 / 4 5 /
\* 7 8 give 3 3 / 3 3).
C25_MakeRelativeDifferences ==
    (last.op = "make_relative" /\ Len(last.before[1].steps) >= 2) =>
        LET self == last.before[1]
            N == Len(self.steps)
        IN  /\ last.err = ""
            /\ last.ret = Len(heap)
            /\ last.ret # last.recv
            /\ Len(Rows(last.ret)) = N - 1
            /\ \A i \in 1..(N - 1) : \A j \in 1..NumCols(self.steps) :
                  Rows(last.ret)[i][j] = RSub(self.steps[i + 1][j], self.steps[i][j])
            /\ TimeIdxs(last.ret) = Tail(self.time_idxs[1])
            /\ heap[last.ret].freq_hz = self.freq_hz
            /\ heap[last.ret].dim_labels = self.dim_labels
            /\ heap[last.ret].angular_dims = self.angular_dims

\* make_relative has returned 3 3 / 3 3 for the rows 1 2 / 4 5 / 7 8 at 2 Hz
C25_Witness ==
    /\ last.op = "make_relative"
    /\ last.before[1].steps = InputMatrix("ramp", 3, 2)
    /\ last.before[1].freq_hz = Some(R(2))
    /\ last.ret = Len(heap)
    /\ Rows(last.ret) = <<<<R(3), R(3)>>, <<R(3), R(3)>>>>
    /\ TimeIdxs(last.ret) = <<Rat(1, 2), R(1)>>

C27_ResampledTimeSpacing ==
    (/\ last.op = "resample"
     /\ last.err = ""
     /\ last.ret # last.recv)
    => \A j \in 1..Len(TimeIdxs(last.ret)) :
          TimeIdxs(last.ret)[j] = RDiv(R(j - 1), last.args.target_hz)

\* C28: downsampling a trajectory of N >= 1 rows from rate f to a positive
\* rate r < f uses the stride s = floor(f / r), the quotient being the
\* binary64 one of Python's f / r; s is at least 1 and exactly ceil(N / s)
\* rows are returned, source rows 0, s, 2s, ...; whenever f / r < 2 the
\* stride is 1 and all N source rows are returned unchanged, and the result
\* is labelled with rate r.
C28_DownsampleStride ==
    (/\ last.op = "resample"
     /\ last.before[1].freq_hz # None
     /\ last.before[1].steps # <<>>)
    => LET self == last.before[1]
           f == self.freq_hz[1]
           r == last.args.target_hz
           N == Len(self.steps)
           s == FloatTrunc(FloatDiv(FloatOfRat(f), FloatOfRat(r)))
       IN  RLess(r, f) =>
              /\ last.err = ""
              /\ last.ret = Len(heap)
              /\ s >= 1
              /\ Len(Rows(last.ret)) * s >= N
              /\ (Len(Rows(last.ret)) - 1) * s < N
              /\ \A i \in 1..Len(Rows(last.ret)) : Rows(last.ret)[i] = self.steps[(i - 1) * s + 1]
              /\ RLess(RDiv(f, r), R(2)) => Rows(last.ret) = self.steps
              /\ heap[last.ret].freq_hz = Some(r)

\* Seven rows at 9 Hz have been resampled to 2 Hz: the stride is
\* floor(4.5) = 4 and rows 0 and 4 are returned
C28_Witness ==
    /\ last.op = "resample"
    /\ last.before[1].steps = InputMatrix("ramp", 7, 1)
    /\ last.before[1].freq_hz = Some(R(9))
    /\ last.args.target_hz = R(2)
    /\ last.ret = Len(heap)
    /\ Rows(last.ret) = <<<<R(1)>>, <<R(13)>>>>

====
